---- MODULE Spec2Model ----
(***************************************************************************)
(* The two call interceptors of python-tips/07_decorators:                 *)
(*   validate_inputs (input_validation.py) - gates a call on per-position  *)
(*                                           rules;                        *)
(*   timeit          (timing.py)           - reports the wall-clock time   *)
(*                                           of a call.                    *)
(* Each wrapper is modelled statement by statement; the program counter of *)
(* a wrapper names the source line it is about to execute.                 *)
(***************************************************************************)
EXTENDS Integers, Sequences, FiniteSets, TLC

VARIABLES
    \* ---- input_validation.py ----
    validation_rules, \* the rules captured by validate_inputs(*validation_rules)
    func,             \* the decorated operation
    pc,               \* position of wrapper(): idle, loop, func, returned, raised
    args,             \* *args of the current call
    kwargs,           \* **kwargs of the current call
    i,                \* how many (arg, rule) pairs the for loop has consumed
    evals,            \* rule evaluations of the current call, in order
    invoked,          \* invocations of func made by the current call
    funcOut,          \* what func itself produced in the current call
    out,              \* what the caller of wrapper() receives
    stdout,           \* lines printed during the current call
    \* ---- timing.py ----
    target,           \* the operation decorated by timeit
    tpc,              \* position of timeit's wrapper()
    targs,            \* *args of the current call
    tkwargs,          \* **kwargs of the current call
    now,              \* true elapsed time, in seconds
    offset,           \* system clock minus true time (the clock can be set)
    start_time,       \* wrapper local
    end_time,         \* wrapper local
    targetOut,        \* what the target itself produced in the current call
    result,           \* wrapper local (line 8)
    tinvoked,         \* invocations of the target made by the current call
    slept,            \* how long the target blocked in the current call
    trace,            \* steps of the current call, in order, with clock readings
    tstdout,          \* lines printed during the current call
    tout              \* what the caller of wrapper() receives

vvars == <<validation_rules, func, pc, args, kwargs, i, evals, invoked,
           funcOut, out, stdout>>
tvars == <<target, tpc, targs, tkwargs, now, offset, start_time, end_time,
           targetOut, result, tinvoked, slept, trace, tstdout, tout>>
vars == <<vvars, tvars>>

\* ------------------------------------------------------------- bounds
MaxArgs == 3
MaxRules == 3

\* ------------------------------------------------------------- values

IntV(n) == [ty |-> "int", n |-> n]
StrV == [ty |-> "str", n |-> 0]
\* the integers the script passes (lines 18-19), their counterparts, and a
\* value that is not an int
Values == {IntV(-10), IntV(-5), IntV(5), IntV(10), StrV}

Min(a, b) == IF a < b THEN a ELSE b
SeqsUpTo(S, n) == UNION {[1..k -> S] : k \in 0..n}

Names == {"y"}
\* **kwargs: nothing, or y given by name
KwargsSet == {<<>>} \cup {<<<<n, v>>>> : n \in Names, v \in {IntV(5), IntV(-5)}}

\* The two rules of line 14, by name.
RuleNames == {"is_int", "is_positive"}

\* A rule applied to a value: "True", "False", or the exception it raises.
\*   lambda x: isinstance(x, int)
\*   lambda x: x > 0            (str > int raises TypeError)
RuleCallNoNegative(rule, v) ==
    CASE rule = "is_int" -> IF v.ty = "int" /\ v.n >= 0 THEN "True" ELSE "False"
      [] rule = "is_positive" ->
            IF v.ty = "int" THEN (IF v.n > 0 THEN "True" ELSE "False")
            ELSE "TypeError"
RuleCall(rule, v) ==
    CASE rule = "is_int" -> IF v.ty = "int" THEN "True" ELSE "False"
      [] rule = "is_positive" ->
            IF v.ty = "int" THEN (IF v.n > 0 THEN "True" ELSE "False")
            ELSE "TypeError"

\* `if not rule(arg)` (line 8), for a rule that returned
RejectsNothing(r) == FALSE
Rejects(r) == r = "False"

\* zip(args, validation_rules) (line 7): pairs by position, as long as the
\* shorter of the two
KwValues == [k \in 1..Len(kwargs) |-> kwargs[k][2]]
ZipWithNamed(a, r) ==
    [k \in 1..Min(Len(a \o KwValues), Len(r)) |-> <<(a \o KwValues)[k], r[k]>>]
ZipReversed(a, r) ==
    [k \in 1..Min(Len(a), Len(r)) |->
        <<a[Min(Len(a), Len(r)) + 1 - k], r[Min(Len(a), Len(r)) + 1 - k]>>]
Zip(a, r) == [k \in 1..Min(Len(a), Len(r)) |-> <<a[k], r[k]>>]

\* enumerate(...) (line 7): the index of the k-th pair consumed, from 0
EnumerateFromOne(k) == k
Enumerate(k) == k - 1

\* ValueError(f"Argument at index {i} does not satisfy the rule.") (line 9)
Failure(exc, index) == [kind |-> "raise", exc |-> exc, index |-> index, val |-> "-"]
Returned(v) == [kind |-> "return", exc |-> "-", index |-> -1, val |-> v]
Nothing == [kind |-> "none", exc |-> "-", index |-> -1, val |-> "-"]

\* func(*args, **kwargs) (line 10): what the wrapper hands to func
ForwardPositionalOnly(a, k) == [args |-> a, kwargs |-> <<>>]
Forward(a, k) == [args |-> a, kwargs |-> k]

\* `return func(...)` (line 10): what the wrapper hands back
Propagate(o) == o

\* process_numbers(x, y) (lines 15-16): binds exactly x and y, prints,
\* returns None
Binds(call) ==
    \/ Len(call.args) = 2 /\ call.kwargs = <<>>
    \/ Len(call.args) = 1 /\ Len(call.kwargs) = 1 /\ call.kwargs[1][1] = "y"
BoundY(call) == IF Len(call.args) = 2 THEN call.args[2] ELSE call.kwargs[1][2]

\* results and failures of an arbitrary decorated operation
Results == {"None", "r1", "r2"}

Decorations ==
    {[func |-> "process_numbers", rules |-> <<"is_int", "is_positive">>]}
    \cup {[func |-> "f", rules |-> r] : r \in SeqsUpTo(RuleNames, MaxRules)}

\* ------------------------------------------------ input_validation.py
InitV ==
    /\ \E d \in Decorations : validation_rules = d.rules /\ func = d.func
    /\ pc = "idle"
    /\ args = <<>>
    /\ kwargs = <<>>
    /\ i = 0
    /\ evals = <<>>
    /\ invoked = <<>>
    /\ funcOut = Nothing
    /\ out = Nothing
    /\ stdout = <<>>
    /\ target = "long_running_task"
    /\ tpc = "idle"
    /\ targs = <<>>
    /\ tkwargs = <<>>
    /\ now = 0
    /\ offset = 0
    /\ start_time = 0
    /\ end_time = 0
    /\ targetOut = Nothing
    /\ result = Nothing
    /\ tinvoked = <<>>
    /\ slept = 0
    /\ trace = <<>>
    /\ tstdout = <<>>
    /\ tout = Nothing

\* wrapper(*args, **kwargs) is called (line 6)
Call ==
    /\ pc = "idle"
    /\ \E a \in SeqsUpTo(Values, MaxArgs), k \in KwargsSet :
          /\ args' = a
          /\ kwargs' = k
    /\ pc' = "loop"
    /\ i' = 0
    /\ evals' = <<>>
    /\ invoked' = <<>>
    /\ funcOut' = Nothing
    /\ out' = Nothing
    /\ stdout' = <<>>
    /\ UNCHANGED <<validation_rules, func>>
    /\ UNCHANGED tvars

\* the pair the for loop is about to consume, and the rule's answer on it
Pair == Zip(args, validation_rules)[i + 1]
Answer == RuleCall(Pair[2], Pair[1])
Evaluated == Append(evals, [index |-> Enumerate(i + 1), rule |-> Pair[2], value |-> Pair[1]])

\* lines 7-8: the rule accepts, the loop goes on
RulePasses ==
    /\ pc = "loop"
    /\ i < Len(Zip(args, validation_rules))
    /\ Answer \in {"True", "False"}
    /\ ~Rejects(Answer)
    /\ evals' = Evaluated
    /\ i' = i + 1
    /\ UNCHANGED <<validation_rules, func, pc, args, kwargs, invoked, funcOut, out, stdout>>
    /\ UNCHANGED tvars

\* lines 7-9: the rule returns false, ValueError names the index
RuleRejects ==
    /\ pc = "loop"
    /\ i < Len(Zip(args, validation_rules))
    /\ Answer \in {"True", "False"}
    /\ Rejects(Answer)
    /\ evals' = Evaluated
    /\ out' = Failure("ValueError", Enumerate(i + 1))
    /\ pc' = "raised"
    /\ UNCHANGED <<validation_rules, func, args, kwargs, i, invoked, funcOut, stdout>>
    /\ UNCHANGED tvars

\* line 8: the rule itself raises; nothing catches it
RuleRaises ==
    /\ pc = "loop"
    /\ i < Len(Zip(args, validation_rules))
    /\ Answer \notin {"True", "False"}
    /\ evals' = Evaluated
    /\ out' = Failure(Answer, -1)
    /\ pc' = "raised"
    /\ UNCHANGED <<validation_rules, func, args, kwargs, i, invoked, funcOut, stdout>>
    /\ UNCHANGED tvars

\* line 10: the loop is exhausted, func is entered
InvokeFunc ==
    /\ pc = "loop"
    /\ i >= Len(Zip(args, validation_rules))
    /\ invoked' = Append(invoked, Forward(args, kwargs))
    /\ pc' = "func"
    /\ UNCHANGED <<validation_rules, func, args, kwargs, i, evals, funcOut, out, stdout>>
    /\ UNCHANGED tvars

\* lines 15-16: process_numbers runs to its end
ProcessNumbers ==
    /\ pc = "func"
    /\ func = "process_numbers"
    /\ LET call == invoked[Len(invoked)] IN
          IF Binds(call)
          THEN /\ stdout' = Append(stdout, [text |-> "Processing numbers",
                                            x |-> call.args[1], y |-> BoundY(call)])
               /\ funcOut' = Returned("None")
          ELSE /\ stdout' = stdout
               /\ funcOut' = Failure("TypeError", -1)
    /\ pc' = "funcdone"
    /\ UNCHANGED <<validation_rules, func, args, kwargs, i, evals, invoked, out>>
    /\ UNCHANGED tvars

\* an arbitrary decorated operation returns some result
FuncReturns ==
    /\ pc = "func"
    /\ func = "f"
    /\ \E r \in Results : funcOut' = Returned(r)
    /\ pc' = "funcdone"
    /\ UNCHANGED <<validation_rules, func, args, kwargs, i, evals, invoked, out, stdout>>
    /\ UNCHANGED tvars

\* an arbitrary decorated operation fails
FuncRaises ==
    /\ pc = "func"
    /\ func = "f"
    /\ funcOut' = Failure("FuncError", -1)
    /\ pc' = "funcdone"
    /\ UNCHANGED <<validation_rules, func, args, kwargs, i, evals, invoked, out, stdout>>
    /\ UNCHANGED tvars

\* line 10: `return func(...)`: the result, or the failure, reaches the caller
WrapperExit ==
    /\ pc = "funcdone"
    /\ out' = Propagate(funcOut)
    /\ pc' = IF Propagate(funcOut).kind = "return" THEN "returned" ELSE "raised"
    /\ UNCHANGED <<validation_rules, func, args, kwargs, i, evals, invoked, funcOut, stdout>>
    /\ UNCHANGED tvars

\* the caller goes on to its next call (lines 18-19 are two calls in a row)
NextCall ==
    /\ pc \in {"returned", "raised"}
    /\ pc' = "idle"
    /\ args' = <<>>
    /\ kwargs' = <<>>
    /\ i' = 0
    /\ evals' = <<>>
    /\ invoked' = <<>>
    /\ funcOut' = Nothing
    /\ out' = Nothing
    /\ stdout' = <<>>
    /\ UNCHANGED <<validation_rules, func>>
    /\ UNCHANGED tvars

NextV ==
    \/ Call
    \/ RulePasses
    \/ RuleRejects
    \/ RuleRaises
    \/ InvokeFunc
    \/ ProcessNumbers
    \/ FuncReturns
    \/ FuncRaises
    \/ WrapperExit
    \/ NextCall

SpecV == InitV /\ [][NextV]_vars

\* ------------------------------------------- input_validation.py: claims
Finished == pc \in {"returned", "raised"}
NPaired == Min(Len(args), Len(validation_rules))
\* what the rule paired with the k-th positional input says of it
Verdict(k) == RuleCall(validation_rules[k], args[k])
SomeRuleFalse == \E k \in 1..NPaired : Verdict(k) = "False"
AllPairedTrue == \A k \in 1..NPaired : Verdict(k) = "True"
\* the smallest position whose rule returns false, when every rule below it
\* returns true
FirstFalse(k) ==
    /\ k \in 1..NPaired
    /\ Verdict(k) = "False"
    /\ \A j \in 1..(k - 1) : Verdict(j) = "True"

\* C1: when the rule paired with some positional input returns false, the
\* call fails and func is never invoked: nothing of func happens.
ThmC1 ==
    SomeRuleFalse =>
        /\ pc \in {"loop", "raised"}
        /\ invoked = <<>>
        /\ funcOut = Nothing
        /\ stdout = <<>>
        /\ (pc = "raised" => out.kind = "raise")
WitC1 == SomeRuleFalse /\ pc = "raised" /\ Len(args) >= 2

\* C2 as stated: for ANY index whose paired rule returns false, the failure
\* is the validation error naming that index.
OrigC2 ==
    Finished =>
        \A k \in 1..NPaired :
            Verdict(k) = "False" => out = Failure("ValueError", k - 1)
\* C2 amended: the failure is the ValueError naming the smallest index whose
\* paired rule returns false, every rule below it having returned true.
ThmC2 ==
    Finished =>
        \A k \in 1..NPaired :
            FirstFalse(k) => out = Failure("ValueError", k - 1)
WitC2 ==
    /\ pc = "raised"
    /\ \E k \in 2..NPaired : FirstFalse(k)
    /\ \E k, j \in 1..NPaired : k # j /\ Verdict(k) = "False" /\ Verdict(j) = "False"

\* C3: when every paired rule returns true, func is invoked exactly once with
\* exactly the original positional and named inputs, and what func produces,
\* result or failure, is what the caller gets.
ThmC3 ==
    AllPairedTrue =>
        /\ Len(invoked) <= 1
        /\ \A n \in 1..Len(invoked) : invoked[n] = [args |-> args, kwargs |-> kwargs]
        /\ (Finished => Len(invoked) = 1 /\ out = funcOut /\ out.kind # "none")
        /\ (pc = "returned" <=> (Finished /\ funcOut.kind = "return"))
WitC3 ==
    /\ AllPairedTrue
    /\ pc = "returned"
    /\ NPaired >= 2
    /\ kwargs # <<>>
    /\ out.val = "r2"
WitC3Raise == AllPairedTrue /\ pc = "raised" /\ out.exc = "FuncError"

IsProcessNumbersCall(x, y) ==
    /\ func = "process_numbers"
    /\ args = <<IntV(x), IntV(y)>>
    /\ kwargs = <<>>
    /\ Finished
\* C4 as stated: (-10, 5) fails at index 0 and the target is not invoked.
OrigC4 ==
    IsProcessNumbersCall(-10, 5) => out = Failure("ValueError", 0) /\ invoked = <<>>
\* C4 amended: (-10, 5) passes both rules (-10 is an int, 5 > 0) and the
\* target is invoked and returns; (10, -5) passes rule 0 and fails with the
\* error at index 1, target not invoked; (10, 5) invokes the target, which
\* returns normally.
ThmC4 ==
    /\ IsProcessNumbersCall(-10, 5) =>
          /\ out = Returned("None")
          /\ Len(invoked) = 1
          /\ stdout = <<[text |-> "Processing numbers", x |-> IntV(-10), y |-> IntV(5)]>>
    /\ IsProcessNumbersCall(10, -5) =>
          /\ out = Failure("ValueError", 1)
          /\ invoked = <<>>
          /\ stdout = <<>>
          /\ Len(evals) = 2
    /\ IsProcessNumbersCall(10, 5) =>
          /\ out = Returned("None")
          /\ Len(invoked) = 1
          /\ stdout = <<[text |-> "Processing numbers", x |-> IntV(10), y |-> IntV(5)]>>
WitC4 == IsProcessNumbersCall(-10, 5) /\ pc = "returned"
WitC4Second == IsProcessNumbersCall(10, -5) /\ pc = "raised"

\* C5: a rule is only ever evaluated on the positional input at its own
\* index; inputs beyond the rules and named inputs reach no rule and are
\* forwarded; rules beyond the inputs are never evaluated; a call with fewer
\* positional inputs than rules whose paired rules pass invokes func.
ThmC5 ==
    /\ Len(evals) <= NPaired
    /\ \A n \in 1..Len(evals) :
          /\ evals[n].index < Len(args)
          /\ evals[n].index < Len(validation_rules)
          /\ evals[n].value = args[evals[n].index + 1]
          /\ evals[n].rule = validation_rules[evals[n].index + 1]
    /\ \A n \in 1..Len(invoked) : invoked[n] = [args |-> args, kwargs |-> kwargs]
    /\ (Finished /\ Len(args) < Len(validation_rules) /\ AllPairedTrue) =>
          Len(invoked) = 1 /\ out = funcOut
WitC5 ==
    /\ Finished
    /\ Len(args) < Len(validation_rules)
    /\ Len(args) >= 1
    /\ kwargs # <<>>
    /\ Len(evals) = Len(args)
    /\ Len(invoked) = 1
WitC5Excess ==
    /\ Finished
    /\ Len(args) > Len(validation_rules)
    /\ Len(validation_rules) >= 1
    /\ Len(invoked) = 1
    /\ args[Len(args)] = StrV
WitC5NoArgs == Finished /\ args = <<>> /\ Len(validation_rules) >= 1 /\ Len(invoked) = 1

SeveralReject ==
    \E k, j \in 1..NPaired : k # j /\ Verdict(k) = "False" /\ Verdict(j) = "False"
InOrder ==
    /\ \A n \in 1..Len(evals) :
          /\ evals[n].index = n - 1
          /\ n <= NPaired
          /\ evals[n].value = args[n]
          /\ evals[n].rule = validation_rules[n]
    /\ \A n \in 1..(Len(evals) - 1) :
          RuleCall(evals[n].rule, evals[n].value) = "True"
\* C10: rules are evaluated in ascending index order, each on the input at
\* its index, and evaluation stops at the first rule that returns false: when
\* several paired rules would reject, the error names the smallest such index,
\* every rule below it was evaluated exactly once and no rule above it was
\* evaluated. (A rule that itself raises also ends the call there, with its
\* own failure.)
ThmC10 ==
    /\ InOrder
    /\ Finished =>
          \A k \in 1..NPaired :
              FirstFalse(k) => out = Failure("ValueError", k - 1) /\ Len(evals) = k
    /\ Finished =>
          \A k \in 1..NPaired :
              (Verdict(k) = "TypeError" /\ \A j \in 1..(k - 1) : Verdict(j) = "True")
                  => out = Failure("TypeError", -1) /\ Len(evals) = k /\ invoked = <<>>
WitC10 ==
    /\ pc = "raised"
    /\ SeveralReject
    /\ FirstFalse(2)
    /\ NPaired = 3
    /\ Len(evals) = 2

\* ---------------------------------------------------------- timing.py
MaxNow == 6
MaxSkew == 2
MaxOversleep == 1
\* time.sleep(2) (line 16)
SleepSeconds == 2
\* how long an arbitrary decorated operation may block
MaxBlock == 2

Targets == {"long_running_task", "g"}
TArgsSet == SeqsUpTo({IntV(5), StrV}, 1)
TKwargsSet == {<<>>, <<<<"y", IntV(5)>>>>}

\* time.time() (lines 7 and 9): the system's wall clock, which an
\* administrator or NTP may set forward or back at any moment
Time == now + offset

\* end_time - start_time (line 10)
Elapsed(e, s) == e - s

\* the statements of wrapper() in the order they run (lines 7-11)
SuccessorEndBeforeCall(l) ==
    CASE l = "l7" -> "l9"
      [] l = "l9" -> "l8"
      [] l = "l8ret" -> "l10"
      [] l = "l10" -> "l11"
Successor(l) ==
    CASE l = "l7" -> "l8"
      [] l = "l8ret" -> "l9"
      [] l = "l9" -> "l10"
      [] l = "l10" -> "l11"

\* line 8 is in no try block: a failure of func leaves wrapper() at once
AfterCallFinally(o) == Successor("l8ret")
AfterCall(o) == IF o.kind = "raise" THEN "raised" ELSE Successor("l8ret")

\* `return result` (line 11)
ForgetReturn(r) == Returned("None")
ReturnResult(r) == r

Event(e, t) == [ev |-> e, t |-> t]
Report(name, elapsed) == [text |-> "executed in", name |-> name, elapsed |-> elapsed]
TaskCompleted == [text |-> "Task completed.", name |-> "-", elapsed |-> 0]

InitT ==
    /\ target \in Targets
    /\ tpc = "idle"
    /\ targs = <<>>
    /\ tkwargs = <<>>
    /\ now = 0
    /\ offset \in -MaxSkew..MaxSkew
    /\ start_time = 0
    /\ end_time = 0
    /\ targetOut = Nothing
    /\ result = Nothing
    /\ tinvoked = <<>>
    /\ slept = 0
    /\ trace = <<>>
    /\ tstdout = <<>>
    /\ tout = Nothing
    /\ validation_rules = <<>>
    /\ func = "f"
    /\ pc = "idle"
    /\ args = <<>>
    /\ kwargs = <<>>
    /\ i = 0
    /\ evals = <<>>
    /\ invoked = <<>>
    /\ funcOut = Nothing
    /\ out = Nothing
    /\ stdout = <<>>

\* wrapper(*args, **kwargs) is called (line 6)
TCall ==
    /\ tpc = "idle"
    /\ \E a \in TArgsSet, k \in TKwargsSet : targs' = a /\ tkwargs' = k
    /\ tpc' = "l7"
    /\ UNCHANGED <<target, now, offset, start_time, end_time, targetOut, result,
                   tinvoked, slept, trace, tstdout, tout>>
    /\ UNCHANGED vvars

\* line 7: start_time = time.time()
ReadStart ==
    /\ tpc = "l7"
    /\ start_time' = Time
    /\ trace' = Append(trace, Event("start_time", Time))
    /\ tpc' = Successor("l7")
    /\ UNCHANGED <<target, targs, tkwargs, now, offset, end_time, targetOut, result,
                   tinvoked, slept, tstdout, tout>>
    /\ UNCHANGED vvars

\* line 8: func(*args, **kwargs) is entered
EnterTarget ==
    /\ tpc = "l8"
    /\ tinvoked' = Append(tinvoked, [args |-> targs, kwargs |-> tkwargs])
    /\ trace' = Append(trace, Event("call", 0))
    /\ tpc' = "in_func"
    /\ UNCHANGED <<target, targs, tkwargs, now, offset, start_time, end_time,
                   targetOut, result, slept, tstdout, tout>>
    /\ UNCHANGED vvars

\* long_running_task() takes no inputs: given any, the call raises TypeError
TaskRejectsInputs ==
    /\ tpc = "in_func"
    /\ target = "long_running_task"
    /\ (targs # <<>> \/ tkwargs # <<>>)
    /\ targetOut' = Failure("TypeError", -1)
    /\ trace' = Append(trace, Event("raise", 0))
    /\ tpc' = "l8ret"
    /\ UNCHANGED <<target, targs, tkwargs, now, offset, start_time, end_time,
                   result, tinvoked, slept, tstdout, tout>>
    /\ UNCHANGED vvars

\* line 16: time.sleep(2) blocks for at least 2 seconds
TaskSleeps ==
    /\ tpc = "in_func"
    /\ target = "long_running_task"
    /\ targs = <<>> /\ tkwargs = <<>>
    /\ \E over \in 0..MaxOversleep :
          /\ now + SleepSeconds + over <= MaxNow
          /\ now' = now + SleepSeconds + over
    /\ slept' = SleepSeconds
    /\ tpc' = "l17"
    /\ UNCHANGED <<target, targs, tkwargs, offset, start_time, end_time, targetOut,
                   result, tinvoked, trace, tstdout, tout>>
    /\ UNCHANGED vvars

\* line 17: print("Task completed."), then the function ends, returning None
TaskPrints ==
    /\ tpc = "l17"
    /\ tstdout' = Append(tstdout, TaskCompleted)
    /\ targetOut' = Returned("None")
    /\ trace' = Append(trace, Event("return", 0))
    /\ tpc' = "l8ret"
    /\ UNCHANGED <<target, targs, tkwargs, now, offset, start_time, end_time,
                   result, tinvoked, slept, tout>>
    /\ UNCHANGED vvars

\* an arbitrary decorated operation blocks for d seconds and returns
TargetReturns ==
    /\ tpc = "in_func"
    /\ target = "g"
    /\ \E d \in 0..MaxBlock :
          /\ now + d <= MaxNow
          /\ now' = now + d
          /\ slept' = d
    /\ \E r \in Results : targetOut' = Returned(r)
    /\ trace' = Append(trace, Event("return", 0))
    /\ tpc' = "l8ret"
    /\ UNCHANGED <<target, targs, tkwargs, offset, start_time, end_time, result,
                   tinvoked, tstdout, tout>>
    /\ UNCHANGED vvars

\* an arbitrary decorated operation blocks for d seconds and fails
TargetRaises ==
    /\ tpc = "in_func"
    /\ target = "g"
    /\ \E d \in 0..MaxBlock :
          /\ now + d <= MaxNow
          /\ now' = now + d
          /\ slept' = d
    /\ targetOut' = Failure("FuncError", -1)
    /\ trace' = Append(trace, Event("raise", 0))
    /\ tpc' = "l8ret"
    /\ UNCHANGED <<target, targs, tkwargs, offset, start_time, end_time, result,
                   tinvoked, tstdout, tout>>
    /\ UNCHANGED vvars

\* line 8: result = ...; or the failure of func propagates out of wrapper()
AssignResult ==
    /\ tpc = "l8ret"
    /\ tpc' = AfterCall(targetOut)
    /\ IF AfterCall(targetOut) = "raised"
       THEN tout' = targetOut /\ result' = result
       ELSE result' = targetOut /\ tout' = tout
    /\ UNCHANGED <<target, targs, tkwargs, now, offset, start_time, end_time,
                   targetOut, tinvoked, slept, trace, tstdout>>
    /\ UNCHANGED vvars

\* line 9: end_time = time.time()
ReadEnd ==
    /\ tpc = "l9"
    /\ end_time' = Time
    /\ trace' = Append(trace, Event("end_time", Time))
    /\ tpc' = Successor("l9")
    /\ UNCHANGED <<target, targs, tkwargs, now, offset, start_time, targetOut,
                   result, tinvoked, slept, tstdout, tout>>
    /\ UNCHANGED vvars

\* line 10: print(f"{func.__name__} executed in {end_time - start_time} seconds.")
PrintReport ==
    /\ tpc = "l10"
    /\ tstdout' = Append(tstdout, Report(target, Elapsed(end_time, start_time)))
    /\ trace' = Append(trace, Event("report", 0))
    /\ tpc' = Successor("l10")
    /\ UNCHANGED <<target, targs, tkwargs, now, offset, start_time, end_time,
                   targetOut, result, tinvoked, slept, tout>>
    /\ UNCHANGED vvars

\* line 11: return result
Return ==
    /\ tpc = "l11"
    /\ tout' = ReturnResult(result)
    /\ tpc' = "returned"
    /\ UNCHANGED <<target, targs, tkwargs, now, offset, start_time, end_time,
                   targetOut, result, tinvoked, slept, trace, tstdout>>
    /\ UNCHANGED vvars

\* the system clock is set while a call is in progress
ClockStep ==
    /\ tpc \notin {"idle", "returned", "raised"}
    /\ \E o \in -MaxSkew..MaxSkew : o # offset /\ offset' = o
    /\ UNCHANGED <<target, tpc, targs, tkwargs, now, start_time, end_time,
                   targetOut, result, tinvoked, slept, trace, tstdout, tout>>
    /\ UNCHANGED vvars

\* the caller goes on to its next call
TNextCall ==
    /\ tpc \in {"returned", "raised"}
    /\ tpc' = "idle"
    /\ targs' = <<>>
    /\ tkwargs' = <<>>
    /\ start_time' = 0
    /\ end_time' = 0
    /\ targetOut' = Nothing
    /\ result' = Nothing
    /\ tinvoked' = <<>>
    /\ slept' = 0
    /\ trace' = <<>>
    /\ tstdout' = <<>>
    /\ tout' = Nothing
    /\ UNCHANGED <<target, now, offset>>
    /\ UNCHANGED vvars

NextT ==
    \/ TCall
    \/ ReadStart
    \/ EnterTarget
    \/ TaskRejectsInputs
    \/ TaskSleeps
    \/ TaskPrints
    \/ TargetReturns
    \/ TargetRaises
    \/ AssignResult
    \/ ReadEnd
    \/ PrintReport
    \/ Return
    \/ ClockStep
    \/ TNextCall

SpecT == InitT /\ [][NextT]_vars

\* ---------------------------------------------------- timing.py: claims
TFinished == tpc \in {"returned", "raised"}
Events == [n \in 1..Len(trace) |-> trace[n].ev]
Reports == {n \in 1..Len(tstdout) : tstdout[n].text = "executed in"}
Happened(e) == \E n \in 1..Len(trace) : trace[n].ev = e

\* C6: when the wrapped operation fails, the same failure reaches the caller,
\* the end timestamp is never taken and the wrapper prints no report.
ThmC6 ==
    /\ targetOut.kind = "raise" =>
          /\ tpc \in {"l8ret", "raised"}
          /\ ~Happened("end_time")
          /\ ~Happened("report")
          /\ Reports = {}
          /\ (tpc = "raised" => tout = targetOut)
    /\ tpc = "raised" => targetOut.kind = "raise"
WitC6 == tpc = "raised" /\ tout = Failure("FuncError", -1) /\ slept > 0
WitC6Task == tpc = "raised" /\ target = "long_running_task" /\ tout.exc = "TypeError"

\* C7: when the wrapped operation returns normally, the wrapper has invoked it
\* exactly once, with exactly the inputs it was given, and returns a result
\* equal to the operation's own.
ThmC7 ==
    /\ Len(tinvoked) <= 1
    /\ \A n \in 1..Len(tinvoked) : tinvoked[n] = [args |-> targs, kwargs |-> tkwargs]
    /\ (TFinished /\ targetOut.kind = "return") =>
          /\ tpc = "returned"
          /\ Len(tinvoked) = 1
          /\ tout = targetOut
    /\ tpc = "returned" => targetOut.kind = "return"
WitC7 == tpc = "returned" /\ tout = Returned("r1") /\ targs # <<>> /\ tkwargs # <<>>

\* C8: a successful call reads the start timestamp, invokes the target and
\* waits for it, reads the end timestamp, prints exactly one report naming the
\* target and carrying end minus start, and then returns; no report precedes
\* the target's return and the target is not entered before the start
\* timestamp is read.
ThmC8 ==
    /\ tpc = "returned" =>
          /\ Events = <<"start_time", "call", "return", "end_time", "report">>
          /\ Cardinality(Reports) = 1
          /\ \A n \in Reports :
                /\ n = Len(tstdout)
                /\ tstdout[n] = Report(target, trace[4].t - trace[1].t)
          /\ tout = targetOut
    /\ \A n \in 1..Len(trace) :
          /\ trace[n].ev = "call" => n = 2 /\ trace[1].ev = "start_time"
          /\ trace[n].ev = "report" => \E m \in 1..(n - 1) : trace[m].ev = "return"
          /\ trace[n].ev = "end_time" => \E m \in 1..(n - 1) : trace[m].ev = "return"
    /\ Reports # {} => Happened("return") /\ Happened("report")
WitC8 ==
    /\ tpc = "returned"
    /\ target = "long_running_task"
    /\ tstdout[1] = TaskCompleted
    /\ Len(tstdout) = 2
    /\ tstdout[2].elapsed = 3

\* C9 as stated: every reported duration is non-negative and at least the
\* time the target blocked, whatever the clock read.
OrigC9 ==
    \A n \in Reports : tstdout[n].elapsed >= 0 /\ tstdout[n].elapsed >= slept
\* C9, its second half for long_running_task alone: at least 2 seconds.
OrigC9Task ==
    target = "long_running_task" => \A n \in Reports : tstdout[n].elapsed >= SleepSeconds

====
